---- MODULE Spec2Model ----
(***************************************************************************)
(* Model of the game-disconnect monitor (src/App.tsx and its services).    *)
(*                                                                         *)
(* src/App.tsx holds two revisions of the App component: the local-OCR     *)
(* loop (lines 34-793, OcrService analyzer, retry queue) and the remote    *)
(* loop (lines 813-1376, GeminiService analyzer, no retry queue).  The     *)
(* variable `variant` says which of the two is running.                    *)
(*                                                                         *)
(* Times are milliseconds as returned by Date.now().  Confidences and the  *)
(* sensitivity setting are in hundredths (0.85 is 85, 0.6 is 60).          *)
(***************************************************************************)
EXTENDS Integers, Sequences, FiniteSets, TLC

VARIABLES
    variant,            \* "ocr" (App.tsx 34-793) or "gemini" (App.tsx 813-1376)
    now,                \* the last value Date.now() returned
    settings,           \* the settings state of the latest render
    isCapturing,        \* isCapturing state
    isMonitoring,       \* state.isMonitoring
    status,             \* state.status
    lastCheck,          \* state.lastCheck: Null, or the time of the last tick that ran the detector
    intervalRef,        \* << >> for null, else << the settings the interval's performCheck closed over >>
    alertLogic,         \* alertLogic.current: index into heap
    heap,               \* the alert-logic objects created so far
    ticks,              \* performCheck invocations suspended at an await
    ocr,                \* OcrService: worker, isInitializing, initError, and its backend workers
    onLine,             \* navigator.onLine
    onlinePending,      \* an 'online' event is queued for the window
    alertQueue,         \* alertQueue.current
    pendingAlertCount,  \* pendingAlertCount state
    replays,            \* processAlertQueue invocations suspended at an await
    sent,               \* history: send attempts initiated, in order
    errors,             \* history: console.error lines about failed sends, in order
    fetches,            \* webhook fetches of triggerAlert whose promise has not settled
    events,             \* history: AlertEvents handed to triggerAlert, in order
    lastTick,           \* history: what the most recent tick with a result saw and did
    outage,             \* history, per logic object: the alerts of its current outage
    started,            \* history: number of performCheck calls that reached analyzeFrame
    tests,              \* history: number of manual test alerts
    flaps,              \* history: number of connectivity losses
    sequential,         \* history: no performCheck ever started while another was in flight
    analysis,           \* history: << >>, or << input and outcome of the last analyzeFrame body run >>
    skips,              \* history: number of performCheck calls that returned without a frame
    testResult          \* testResult state: << >> for null, else << the uploaded file and analyzeFrame's result >>

vars == << variant, now, settings, isCapturing, isMonitoring, status, lastCheck, intervalRef,
           alertLogic, heap, ticks, ocr, onLine, onlinePending, alertQueue,
           pendingAlertCount, replays, sent, errors, fetches, events, lastTick,
           outage, started, tests, flaps, sequential, analysis, skips, testResult >>

\* null in a `number | null` field (times are never negative).
Null == -1

(***************************************************************************)
(* Bounds of the model.                                                    *)
(***************************************************************************)
MaxTicks == 3        \* performCheck calls per behaviour
MaxInFlight == 2     \* performCheck invocations suspended at the same time
MaxSessions == 1     \* startMonitoring calls per behaviour
MaxTests == 1        \* manual test alerts per behaviour
MaxFlaps == 2        \* connectivity losses per behaviour

\* Elapsed time between two consecutive readings of Date.now().
Steps == {2500, 15000, 60000, 600000}

(***************************************************************************)
(* Program constants.                                                      *)
(***************************************************************************)
ConfirmWindowOcr == 15000
ConfirmWindowGemini == 30000
RepeatInterval == 60000
AlertCeiling == 600000
KeywordFloor == 85

ConfirmWindow(v) == IF v = "ocr" THEN ConfirmWindowOcr ELSE ConfirmWindowGemini

(***************************************************************************)
(* Values.                                                                 *)
(***************************************************************************)
\* JavaScript truthiness of a `number | null` field: null and 0 are falsy.
Falsy(v) == v = Null \/ v = 0

EmptyLogic == [disconnectStartTime |-> Null, lastAlertTime |-> Null]

\* Confidence the recognizer reports (0..100) on the frames of the model.
RecognizerConfidences == {0, 95}
\* Confidence values a remote JSON answer carries on the frames of the model.
RemoteConfidences == {50, 70}
\* Sensitivity settings of the model, per loop.
Sensitivities(v) == IF v = "ocr" THEN {60, 90} ELSE {70}

SettingsSet(v) ==
    [sensitivity : Sensitivities(v), meowCode : BOOLEAN, webhookUrl : BOOLEAN]

Max(a, b) == IF a >= b THEN a ELSE b

(***************************************************************************)
(* Analyzer results (DetectionResult).                                     *)
(***************************************************************************)
InitErrorResult == [isDisconnected |-> FALSE, confidence |-> 0, kind |-> "initerror"]
\* Mutant: the placeholder reports a disconnection.
LoadingResult_Disconnected == [isDisconnected |-> TRUE, confidence |-> 100, kind |-> "loading"]

LoadingResult == [isDisconnected |-> FALSE, confidence |-> 0, kind |-> "loading"]
FailedResult == [isDisconnected |-> FALSE, confidence |-> 0, kind |-> "failed"]
NoMatchResult == [isDisconnected |-> FALSE, confidence |-> 0, kind |-> "nomatch"]
\* Mutant: the recognizer's confidence is reported as it is.
MatchResult_Raw(conf) ==
    [isDisconnected |-> TRUE, confidence |-> conf, kind |-> "match"]

MatchResult(conf) ==
    [isDisconnected |-> TRUE, confidence |-> Max(KeywordFloor, conf), kind |-> "match"]
RemoteResult(b, conf) == [isDisconnected |-> b, confidence |-> conf, kind |-> "remote"]

ApiRouteErrorResult == [isDisconnected |-> FALSE, confidence |-> 0, kind |-> "routeerror"]

\* How a block of code ends: it returns a value, or it throws.
Return(value) == [tag |-> "return", value |-> value]
Thrown == [isDisconnected |-> FALSE, confidence |-> 0, kind |-> "thrown"]
Throw == [tag |-> "throw", value |-> Thrown]

\* Mutant: the exception is not caught.
TryCatch_Rethrows(body, handler) == body

\* try { body } catch { return handler }
TryCatch(body, handler) ==
    IF body.tag = "throw" THEN Return(handler) ELSE body

\* What can happen inside analyzeFrame.  Local OCR: the frame is
\* preprocessed (ok, returned as it is when no 2d context exists, or the
\* image fails to load), recognized (ok or rejected), and the text holds a
\* keyword or not.
OcrInputs ==
    [service : {"ocr"}, preprocess : {"ok", "fallback", "reject"},
     recognize : {"ok", "reject"}, text : {"match", "nomatch"},
     conf : RecognizerConfidences]

\* Remote, direct: generateContent resolves or rejects; the response text is
\* empty, JSON, JSON inside a code fence, or neither.
DirectInputs ==
    [service : {"direct"}, generate : {"ok", "reject"},
     text : {"empty", "json", "fenced", "garbage"},
     b : BOOLEAN, conf : RemoteConfidences]

\* Remote, via the proxy: fetch resolves or rejects; the response has a
\* content type, a status, and a body that is JSON, JSON inside a code fence,
\* or neither.
ProxyInputs ==
    [service : {"proxy"}, fetch : {"ok", "reject"}, contentType : {"html", "json"},
     ok : BOOLEAN, body : {"json", "fenced", "garbage"}, b : BOOLEAN,
     conf : RemoteConfidences]

AnalyzerInputs(v) == IF v = "ocr" THEN OcrInputs ELSE DirectInputs \cup ProxyInputs

\* OcrService.analyzeFrame from its try block on (a worker exists).
OcrAnalyzeFrame(in) ==
    TryCatch(IF in.preprocess = "reject" THEN Throw
             ELSE IF in.recognize = "reject" THEN Throw
             ELSE IF in.text = "match" THEN Return(MatchResult(in.conf))
             ELSE Return(NoMatchResult),
             FailedResult)

\* GeminiService.analyzeFrame calling the model from the browser.
DirectAnalyzeFrame(in) ==
    TryCatch(IF in.generate = "reject" THEN Throw
             ELSE IF in.text = "empty" THEN Throw
             ELSE IF in.text = "json" THEN Return(RemoteResult(in.b, in.conf))
             ELSE \* JSON.parse threw; the fences are stripped and it is tried again
                  IF in.text = "fenced" THEN Return(RemoteResult(in.b, in.conf))
                  ELSE Throw,
             FailedResult)

\* GeminiService.analyzeFrame calling the proxy.
ProxyAnalyzeFrame(in) ==
    TryCatch(IF in.fetch = "reject" THEN Throw
             ELSE IF in.contentType = "html" THEN Return(ApiRouteErrorResult)
             ELSE IF ~in.ok THEN Throw
             ELSE IF in.body # "json" THEN Throw   \* response.json() rejects
             ELSE Return(RemoteResult(in.b, in.conf)),
             FailedResult)

AnalyzeFrame(in) ==
    IF in.service = "ocr" THEN OcrAnalyzeFrame(in)
    ELSE IF in.service = "direct" THEN DirectAnalyzeFrame(in)
    ELSE ProxyAnalyzeFrame(in)

\* What a suspended analyzeFrame call can resolve to.
AnalyzeResults(v) ==
    IF v = "ocr"
    THEN {MatchResult(c) : c \in RecognizerConfidences} \cup {NoMatchResult, FailedResult}
    ELSE {RemoteResult(b, c) : b \in BOOLEAN, c \in RemoteConfidences} \cup {FailedResult}

(***************************************************************************)
(* OcrService in full, as the image test (handleFileUpload) exercises it:  *)
(* the pixels of the frame and the characters of the recognized text.      *)
(* Characters are code points; channels are the bytes of ImageData.        *)
(***************************************************************************)
Threshold == 160          \* const threshold = 160
ConfidenceScale == 100    \* the recognizer's confidence runs from 0 to 100
MaxTokens == 4            \* pieces a recognized text is built from
ImagePixels == 2          \* pixels of an uploaded image

\* gray = 0.2126 r + 0.7152 g + 0.0722 b, in ten-thousandths.  The channel
\* values used (Channels) keep gray away from the threshold, where the
\* source's double arithmetic and exact arithmetic give the same verdict.
Gray(p) == 2126 * p.r + 7152 * p.g + 722 * p.b

\* Mutant: light pixels become black and dark pixels white.
BinarizePixel_Inverted(p) ==
    LET val == IF Gray(p) >= Threshold * 10000 THEN 0 ELSE 255
    IN  [r |-> val, g |-> val, b |-> val]

BinarizePixel(p) ==
    LET val == IF Gray(p) >= Threshold * 10000 THEN 255 ELSE 0
    IN  [r |-> val, g |-> val, b |-> val]

\* The loop over imageData.data.
BinarizeImage(pixels) == [i \in DOMAIN pixels |-> BinarizePixel(pixels[i])]

\* preprocessImage: the promise rejects when the image does not load,
\* resolves with the original when no 2d context exists, and otherwise with
\* the binarized canvas (the crop and the upscale move pixels and are left
\* out: pixels stands for what getImageData returns).
PreprocessImage(file) ==
    IF file.load = "error" THEN Throw
    ELSE IF ~file.ctx THEN Return(file.pixels)
    ELSE Return(BinarizeImage(file.pixels))

\* text.replace(/[^\u4e00-\u9fa5a-zA-Z0-9]/g, ""): what is kept.
IsKept(ch) ==
    \/ ch \in 19968..40869
    \/ ch \in 97..122
    \/ ch \in 65..90
    \/ ch \in 48..57

\* Mutant: the text is matched as recognized.
CleanText_Raw(text) == text

CleanText(text) == SelectSeq(text, IsKept)

Keyword(source, ignoreCase) == [source |-> source, ignoreCase |-> ignoreCase]

errorKeywords ==
    << Keyword(<< 32593, 32476, 38169, 35823 >>, FALSE),
       Keyword(<< 35831, 37325, 26032, 30331, 24405 >>, FALSE),
       Keyword(<< 32593, 32476, 26377, 38382, 39064 >>, FALSE),
       Keyword(<< 26816, 27979, 19968, 19979, 21543 >>, FALSE),
       Keyword(<< 35831, 37325, 26032, 36830, 25509 >>, FALSE),
       Keyword(<< 26029, 24320, 36830, 25509 >>, FALSE),
       Keyword(<< 36830, 25509, 36229, 26102 >>, FALSE),
       Keyword(<< 32593, 32476, 24322, 24120 >>, FALSE),
       Keyword(<< 26381, 21153, 22120, 26029, 24320 >>, FALSE),
       Keyword(<< 28857, 20987, 37325, 35797 >>, FALSE),
       Keyword(<< 110, 101, 116, 119, 111, 114, 107, 101, 114, 114, 111, 114 >>, TRUE),
       Keyword(<< 99, 111, 110, 110, 101, 99, 116, 105, 111, 110, 108, 111, 115, 116 >>, TRUE),
       Keyword(<< 100, 105, 115, 99, 111, 110, 110, 101, 99, 116, 101, 100 >>, TRUE),
       Keyword(<< 112, 108, 101, 97, 115, 101, 114, 101, 108, 111, 103, 105, 110 >>, TRUE),
       Keyword(<< 115, 101, 114, 118, 101, 114, 101, 114, 114, 111, 114 >>, TRUE),
       Keyword(<< 116, 105, 109, 101, 100, 111, 117, 116 >>, TRUE) >>

\* The i flag: letters compare without case (the patterns are lower case).
Canonicalize(regex, ch) ==
    IF regex.ignoreCase /\ ch \in 65..90 THEN ch + 32 ELSE ch

MatchesAt(regex, text, k) ==
    /\ k + Len(regex.source) - 1 <= Len(text)
    /\ \A j \in 1..Len(regex.source) :
          Canonicalize(regex, text[k + j - 1]) = regex.source[j]

\* regex.test(text)
Test(regex, text) == \E k \in 1..Len(text) : MatchesAt(regex, text, k)

\* errorKeywords.find(regex => regex.test(text)): the index of the first
\* pattern of the list that matches, 0 for undefined.
Find(text) ==
    IF \E i \in 1..Len(errorKeywords) : Test(errorKeywords[i], text)
    THEN CHOOSE i \in 1..Len(errorKeywords) :
            /\ Test(errorKeywords[i], text)
            /\ \A j \in 1..(i - 1) : ~Test(errorKeywords[j], text)
    ELSE 0

\* text.match(regex)[0]: the leftmost match.
MatchString(regex, text) ==
    LET k == CHOOSE k \in 1..Len(text) :
                /\ MatchesAt(regex, text, k)
                /\ \A m \in 1..(k - 1) : ~MatchesAt(regex, text, m)
    IN  SubSeq(text, k, k + Len(regex.source) - 1)

\* The reason and processedImage fields that go with a result.
Detected(matchString) == [kind |-> "Detected", match |-> matchString]
NoErrorText == [kind |-> "No error text detected", match |-> << >>]
OcrFailed == [kind |-> "OCR Failed", match |-> << >>]
OcrInitError == [kind |-> "OCR Init Error", match |-> << >>]
OcrModelLoading == [kind |-> "OCR Model Loading...", match |-> << >>]
Report(result, reason, processedImage) ==
    [result |-> result, reason |-> reason, processedImage |-> processedImage]

\* OcrService.analyzeFrame from its try block on, on a file: preprocess,
\* recognize, normalize, look for a keyword.
OcrAnalyzeFile(file) ==
    LET processedImage == PreprocessImage(file)
        cleanText == CleanText(file.text)
        matchedKeyword == Find(cleanText)
    IN  TryCatch(IF processedImage.tag = "throw" THEN Throw
                 ELSE IF file.recognize = "reject" THEN Throw
                 ELSE IF matchedKeyword # 0
                 THEN Return(Report(MatchResult(file.conf),
                                    Detected(MatchString(errorKeywords[matchedKeyword],
                                                         cleanText)),
                                    processedImage.value))
                 ELSE Return(Report(NoMatchResult, NoErrorText, processedImage.value)),
                 Report(FailedResult, OcrFailed, << >>))

(***************************************************************************)
(* The detector step of performCheck.                                      *)
(***************************************************************************)
\* Mutant: the confidence is not compared with the sensitivity.
Accepted_IgnoresConfidence(result, sensitivity) == result.isDisconnected

Accepted(result, sensitivity) ==
    result.isDisconnected /\ result.confidence >= sensitivity

\* disconnectStartTime after `if (!logic.disconnectStartTime) logic.disconnectStartTime = now`
StartTime(logic, t) ==
    IF Falsy(logic.disconnectStartTime) THEN t ELSE logic.disconnectStartTime

\* Mutant: no alert ceiling.
BelowCeiling_Off(durationMs) == TRUE

BelowCeiling(durationMs) == durationMs < AlertCeiling

\* Mutant: the confirmation window must be exceeded, not reached.
ShouldAlert_Strict(v, durationMs, lastAlertTime, t) ==
    /\ durationMs > ConfirmWindow(v)
    /\ \/ Falsy(lastAlertTime)
       \/ t - lastAlertTime >= RepeatInterval

\* Mutant: the repeat interval must be exceeded, not reached.
ShouldAlert_RepeatStrict(v, durationMs, lastAlertTime, t) ==
    /\ durationMs >= ConfirmWindow(v)
    /\ \/ Falsy(lastAlertTime)
       \/ t - lastAlertTime > RepeatInterval

\* Mutant: the repeat interval is not waited for.
ShouldAlert_NoRepeat(v, durationMs, lastAlertTime, t) ==
    durationMs >= ConfirmWindow(v)

ShouldAlert(v, durationMs, lastAlertTime, t) ==
    /\ durationMs >= ConfirmWindow(v)
    /\ \/ Falsy(lastAlertTime)
       \/ t - lastAlertTime >= RepeatInterval

\* Mutant: the duration is rounded up.
DurationSec_Ceil(durationMs) == (durationMs + 999) \div 1000

DurationSec(durationMs) == durationMs \div 1000

\* Mutant: the connected branch forgets to clear lastAlertTime.
ResetLogic_KeepsLastAlert(logic) ==
    IF ~Falsy(logic.disconnectStartTime)
    THEN [logic EXCEPT !.disconnectStartTime = Null]
    ELSE logic

\* Mutant: the connected branch resets nothing.
ResetLogic_Never(logic) == logic

\* The logic object after the connected branch.
ResetLogic(logic) ==
    IF ~Falsy(logic.disconnectStartTime) THEN EmptyLogic ELSE logic

\* The decision of one detector step on logic object `logic` at time t:
\* the object as the synchronous part leaves it, and whether triggerAlert is called.
Detect(v, logic, result, sensitivity, t) ==
    IF Accepted(result, sensitivity)
    THEN LET start == StartTime(logic, t)
             durationMs == t - start
         IN  [logic |-> [logic EXCEPT !.disconnectStartTime = start],
              accepted |-> TRUE,
              durationMs |-> durationMs,
              alert |-> BelowCeiling(durationMs)
                        /\ ShouldAlert(v, durationMs, logic.lastAlertTime, t),
              status |-> "alert"]
    ELSE [logic |-> ResetLogic(logic),
          accepted |-> FALSE,
          durationMs |-> 0,
          alert |-> FALSE,
          status |-> "scanning"]

(***************************************************************************)
(* The dispatcher and the retry queue.  `net` collects what they touch:    *)
(* queue (alertQueue.current), count (pendingAlertCount), sent (the send   *)
(* attempts initiated so far) and replays (processAlertQueue calls that    *)
(* are suspended, each with the items it has not sent yet).                *)
(***************************************************************************)
Net == [queue |-> alertQueue, count |-> pendingAlertCount, sent |-> sent,
        replays |-> replays, errors |-> errors, fetches |-> fetches]

QueuedAlert(ev, type) == [ev |-> ev, type |-> type]
Attempt(alert, via) == [ev |-> alert.ev, type |-> alert.type, via |-> via]

\* An immediate send is initiated: the meow trigger of the local-OCR loop is
\* an Image load; a webhook is a fetch whose promise settles later.
SendNow(net, alert) ==
    [net EXCEPT !.sent = Append(@, Attempt(alert, "direct")),
                !.fetches = IF alert.type = "webhook" THEN Append(@, alert) ELSE @]

\* Mutant: a failed immediate delivery is put into the retry queue.
DeliveryFailed_Queues(net, alert) ==
    [net EXCEPT !.errors = Append(@, Attempt(alert, "direct")),
                !.queue = Append(@, alert), !.count = @ + 1]

\* The catch handler of an immediate delivery: the failure is logged.
DeliveryFailed(net, alert) ==
    [net EXCEPT !.errors = Append(@, Attempt(alert, "direct"))]

\* Mutant: the attempt is queued when offline, and sent all the same.
Deliver_AlsoSends(net, alert, isOnline) ==
    IF isOnline
    THEN SendNow(net, alert)
    ELSE [SendNow(net, alert) EXCEPT !.queue = Append(@, alert), !.count = @ + 1]

\* One destination of triggerAlert in the local-OCR loop.
Deliver(net, alert, isOnline) ==
    IF isOnline
    THEN SendNow(net, alert)
    ELSE [net EXCEPT !.queue = Append(@, alert), !.count = @ + 1]

\* Mutant: both destinations are handled whether configured or not.
TriggerAlertOcr_AllDestinations(net, cl, ev, isOnline) ==
    Deliver(Deliver(net, QueuedAlert(ev, "meow"), isOnline), QueuedAlert(ev, "webhook"), isOnline)

\* triggerAlert of the local-OCR loop: navigator.onLine is read once.
TriggerAlertOcr(net, cl, ev, isOnline) ==
    LET n1 == IF cl.meowCode THEN Deliver(net, QueuedAlert(ev, "meow"), isOnline)
                             ELSE net
    IN  IF cl.webhookUrl THEN Deliver(n1, QueuedAlert(ev, "webhook"), isOnline)
                         ELSE n1

\* The catch block of processAlertQueue's loop: the failure is logged.
RetryFailed(net, alert) ==
    [net EXCEPT !.errors = Append(@, Attempt(alert, "replay"))]

\* Mutant: a failed replay puts the alert back into the queue.
ReplaySettled_Requeues(net, alert, ok) ==
    IF ok
    THEN net
    ELSE [RetryFailed(net, alert) EXCEPT !.queue = Append(@, alert), !.count = @ + 1]

\* One iteration of processAlertQueue's loop ends: the awaited send of
\* `alert` succeeded and the delay elapsed, or the send threw.
ReplaySettled(net, alert, ok) ==
    IF ok THEN net ELSE RetryFailed(net, alert)

\* Whether the send of a queued alert can throw into the loop's catch: the
\* meow trigger is an Image load, the webhook an awaited fetch.
CanFail(alert) == alert.type = "webhook"

\* processAlertQueue up to its first await: the queue is copied and cleared,
\* and the send of the first item is initiated.  A suspended replay is the
\* items not yet done, the first of them being the one awaited.
\* Mutant: the queue is copied and not cleared.
ProcessAlertQueue_KeepsQueue(net) ==
    IF Len(net.queue) = 0
    THEN net
    ELSE [net EXCEPT !.sent = Append(@, Attempt(Head(net.queue), "replay")),
                     !.replays = Append(@, net.queue)]

\* Mutant: the queue is cleared and the pending count left as it was.
ProcessAlertQueue_KeepsCount(net) ==
    IF Len(net.queue) = 0
    THEN net
    ELSE [net EXCEPT !.queue = << >>,
                     !.sent = Append(@, Attempt(Head(net.queue), "replay")),
                     !.replays = Append(@, net.queue)]

ProcessAlertQueue(net) ==
    IF Len(net.queue) = 0
    THEN net
    ELSE [net EXCEPT !.queue = << >>,
                     !.count = 0,
                     !.sent = Append(@, Attempt(Head(net.queue), "replay")),
                     !.replays = Append(@, net.queue)]

\* The "double check" at the end of a tick of the local-OCR loop.
DoubleCheck(net, isOnline) ==
    IF isOnline /\ Len(net.queue) > 0 THEN ProcessAlertQueue(net) ELSE net

SetNet(net) ==
    /\ alertQueue' = net.queue
    /\ pendingAlertCount' = net.count
    /\ sent' = net.sent
    /\ replays' = net.replays
    /\ errors' = net.errors
    /\ fetches' = net.fetches

RemoveAt(seq, i) == SubSeq(seq, 1, i - 1) \o SubSeq(seq, i + 1, Len(seq))

(***************************************************************************)
(* OcrService.                                                             *)
(***************************************************************************)
\* The service after construction.  Besides its three fields it records the
\* backend: inits is the number of createWorker() calls not yet settled,
\* created the number of workers made, alive the workers not terminated,
\* held the worker this.worker refers to (0 for null), terminating the
\* suspended terminate() calls, each with the worker it awaits, terminates
\* the number of terminate() calls, and released whether a terminate() has
\* completed with no initialization started since.
NewOcrService(constructed) ==
    [worker |-> FALSE, isInitializing |-> constructed, initError |-> FALSE,
     inits |-> IF constructed THEN 1 ELSE 0, created |-> 0, alive |-> {}, held |-> 0,
     terminating |-> << >>, terminates |-> 0, released |-> FALSE]

\* init(): a no-op while an initialization is in flight or a worker exists.
OcrInit(o) ==
    IF o.isInitializing \/ o.worker THEN o
    ELSE [o EXCEPT !.isInitializing = TRUE, !.inits = @ + 1, !.released = FALSE]

\* createWorker() resolves: the new worker becomes this.worker.
OcrWorkerReady(o) ==
    [o EXCEPT !.worker = TRUE, !.isInitializing = FALSE, !.inits = @ - 1,
              !.created = @ + 1, !.held = o.created + 1,
              !.alive = @ \cup {o.created + 1}]

\* terminate() up to its await: without a worker it returns at once.
OcrTerminate(o) ==
    IF o.worker
    THEN [o EXCEPT !.terminating = Append(@, o.held), !.terminates = @ + 1]
    ELSE [o EXCEPT !.terminates = @ + 1, !.released = TRUE]

\* worker.terminate() of the i-th suspended terminate() resolves and
\* this.worker becomes null.
OcrTerminated(o, i) ==
    [o EXCEPT !.alive = @ \ {o.terminating[i]},
              !.worker = FALSE, !.held = 0,
              !.terminating = SubSeq(@, 1, i - 1) \o SubSeq(@, i + 1, Len(@)),
              !.released = TRUE]

(***************************************************************************)
(* performCheck.                                                           *)
(***************************************************************************)
AlertEvent(durationMs, src, idx) ==
    [dur |-> DurationSec(durationMs), src |-> src, logic |-> idx]

\* History of one outage of a logic object (from setting disconnectStartTime
\* to the next reset): when its last AlertEvent was emitted, and how many
\* accepted ticks found elapsed >= the ceiling.
EmptyOutage == [emitAt |-> Null, ceased |-> 0]

TickRecord(idx, hp, result, sensitivity, accepted, alerted, gap) ==
    [n |-> lastTick.n + 1, result |-> result, sens |-> sensitivity,
     accepted |-> accepted, before |-> hp[idx], logic |-> idx, alerted |-> alerted,
     gap |-> gap]

\* performCheck from `const now = Date.now()` on, for a result of the analyzer:
\* cl are the settings the closure captured, idx the logic object it captured,
\* hp the heap and rest the other suspended ticks.
Detector(cl, idx, hp, og, rest, result, t) ==
    LET dec == Detect(variant, hp[idx], result, cl.sensitivity, t)
        ev == Len(events) + 1
        alerted == [dec.logic EXCEPT !.lastAlertTime = t]
        o == og[idx]
    IN  /\ now' = t
        /\ lastTick' = TickRecord(idx, hp, result, cl.sensitivity, dec.accepted, dec.alert,
                                  IF dec.alert /\ o.emitAt # Null THEN t - o.emitAt ELSE Null)
        /\ outage' = [og EXCEPT ![idx] =
                        IF dec.logic.disconnectStartTime = Null
                        THEN EmptyOutage
                        ELSE [emitAt |-> IF dec.alert THEN t ELSE o.emitAt,
                              ceased |-> IF dec.accepted /\ dec.durationMs >= AlertCeiling
                                         THEN o.ceased + 1 ELSE o.ceased]]
        /\ events' = IF dec.alert
                     THEN Append(events, AlertEvent(dec.durationMs, "detector", idx))
                     ELSE events
        /\ IF variant = "ocr"
           THEN \* triggerAlert has no await of its own: the tick runs to its end.
                LET n1 == IF dec.alert THEN TriggerAlertOcr(Net, cl, ev, onLine) ELSE Net
                IN  /\ heap' = [hp EXCEPT ![idx] = IF dec.alert THEN alerted ELSE dec.logic]
                    /\ status' = dec.status
                    /\ lastCheck' = t
                    /\ ticks' = rest
                    /\ SetNet(DoubleCheck(n1, onLine))
           ELSE IF dec.alert /\ cl.meowCode
           THEN \* triggerAlert awaits the fetch of the meow trigger.
                /\ heap' = [hp EXCEPT ![idx] = dec.logic]
                /\ status' = status
                /\ lastCheck' = lastCheck
                /\ ticks' = Append(rest, [logic |-> idx, cl |-> cl, pc |-> "dispatching",
                                          at |-> t, ev |-> ev])
                /\ SetNet([Net EXCEPT !.sent = Append(@, Attempt(QueuedAlert(ev, "meow"), "direct"))])
           ELSE /\ heap' = [hp EXCEPT ![idx] = IF dec.alert THEN alerted ELSE dec.logic]
                /\ status' = dec.status
                /\ lastCheck' = t
                /\ ticks' = rest
                /\ SetNet(IF dec.alert /\ cl.webhookUrl
                          THEN SendNow(Net, QueuedAlert(ev, "webhook"))
                          ELSE Net)

\* performCheck up to its first real suspension.  In the local-OCR loop
\* analyzeFrame answers at once when initialization has failed or no worker
\* exists yet, and the tick then runs on without any other task in between
\* (for the loading placeholder: to the early return).
\* Mutant: the loading placeholder is handed to the detector.
PerformCheck_NoEarlyReturn(cl, idx, hp, og, st, d) ==
    /\ started' = started + 1
    /\ sequential' = (sequential /\ ticks = << >>)
    /\ IF variant = "ocr" /\ ocr.initError
       THEN /\ Detector(cl, idx, hp, og, ticks, InitErrorResult, now + d)
            /\ ocr' = ocr
       ELSE IF variant = "ocr" /\ ~ocr.worker
       THEN /\ Detector(cl, idx, hp, og, ticks, LoadingResult, now + d)
            /\ ocr' = OcrInit(ocr)
       ELSE /\ ticks' = Append(ticks, [logic |-> idx, cl |-> cl, pc |-> "analyzing",
                                       at |-> 0, ev |-> 0])
            /\ heap' = hp
            /\ outage' = og
            /\ status' = st
            /\ lastCheck' = lastCheck
            /\ UNCHANGED << now, ocr, alertQueue, pendingAlertCount, sent, errors, fetches, replays,
                            events, lastTick >>

PerformCheck(cl, idx, hp, og, st, d) ==
    /\ started' = started + 1
    /\ sequential' = (sequential /\ ticks = << >>)
    /\ IF variant = "ocr" /\ ocr.initError
       THEN /\ Detector(cl, idx, hp, og, ticks, InitErrorResult, now + d)
            /\ ocr' = ocr
       ELSE IF variant = "ocr" /\ ~ocr.worker
       THEN /\ ocr' = OcrInit(ocr)
            /\ heap' = hp
            /\ outage' = og
            /\ status' = st
            /\ lastCheck' = lastCheck
            /\ lastTick' = TickRecord(idx, hp, LoadingResult, cl.sensitivity, FALSE, FALSE, Null)
            /\ UNCHANGED << now, ticks, alertQueue, pendingAlertCount, sent, errors, fetches, replays,
                            events >>
       ELSE /\ ticks' = Append(ticks, [logic |-> idx, cl |-> cl, pc |-> "analyzing",
                                       at |-> 0, ev |-> 0])
            /\ heap' = hp
            /\ outage' = og
            /\ status' = st
            /\ lastCheck' = lastCheck
            /\ UNCHANGED << now, ocr, alertQueue, pendingAlertCount, sent, errors, fetches, replays,
                            events, lastTick >>

(***************************************************************************)
(* Initial state: the component is mounted, nothing is captured yet.  The  *)
(* loop (variant) and the stored settings are chosen by each specification. *)
(***************************************************************************)
InitApp ==
    /\ now = 0
    /\ isCapturing = FALSE
    /\ isMonitoring = FALSE
    /\ status = "idle"
    /\ lastCheck = Null
    /\ intervalRef = << >>
    /\ alertLogic = 1
    /\ heap = << EmptyLogic >>
    /\ ticks = << >>
    /\ ocr = NewOcrService(variant = "ocr")
    /\ onLine = TRUE
    /\ onlinePending = FALSE
    /\ alertQueue = << >>
    /\ pendingAlertCount = 0
    /\ replays = << >>
    /\ sent = << >>
    /\ errors = << >>
    /\ fetches = << >>
    /\ events = << >>
    /\ lastTick = [n |-> 0, result |-> NoMatchResult, sens |-> 0, accepted |-> FALSE,
                   before |-> EmptyLogic, logic |-> 0, alerted |-> FALSE, gap |-> Null]
    /\ outage = << EmptyOutage >>
    /\ started = 0
    /\ tests = 0
    /\ flaps = 0
    /\ sequential = TRUE
    /\ analysis = << >>
    /\ skips = 0
    /\ testResult = << >>

(***************************************************************************)
(* Actions.                                                                *)
(***************************************************************************)
StartScreenCapture ==
    /\ ~isCapturing
    /\ isCapturing' = TRUE
    /\ UNCHANGED << testResult, analysis, skips, variant, now, settings, isMonitoring, status, lastCheck, intervalRef, alertLogic,
                    heap, ticks, ocr, onLine, onlinePending, alertQueue,
                    pendingAlertCount, replays, sent, errors, fetches, events, lastTick, outage, started, tests,
                    flaps, sequential >>

\* startMonitoring, with its first performCheck() call.
StartMonitoring(d) ==
    /\ isCapturing
    /\ ~isMonitoring
    /\ alertLogic' = Len(heap) + 1
    /\ isMonitoring' = TRUE
    /\ PerformCheck(settings, Len(heap) + 1, Append(heap, EmptyLogic),
                    Append(outage, EmptyOutage), "scanning", d)
    /\ intervalRef' = << settings >>
    /\ UNCHANGED << testResult, analysis, skips, variant, settings, isCapturing, onLine, onlinePending, tests, flaps >>

StopMonitoring ==
    /\ isMonitoring
    /\ intervalRef' = << >>
    /\ isMonitoring' = FALSE
    /\ status' = "idle"
    /\ lastCheck' = lastCheck
    /\ UNCHANGED << testResult, analysis, skips, variant, now, settings, isCapturing, alertLogic, heap, ticks, ocr,
                    onLine, onlinePending, alertQueue, pendingAlertCount, replays, sent, errors, fetches,
                    events, lastTick, outage, started, tests, flaps, sequential >>

\* The interval timer calls performCheck.
TimerFires(d) ==
    /\ intervalRef # << >>
    /\ PerformCheck(intervalRef[1], alertLogic, heap, outage, status, d)
    /\ UNCHANGED << testResult, analysis, skips, variant, settings, isCapturing, isMonitoring, intervalRef, alertLogic,
                    onLine, onlinePending, tests, flaps >>

\* The interval timer calls performCheck and no frame can be drawn: a ref is
\* missing (the call returns at once) or the canvas has no 2d context (the
\* body is skipped).
TickSkipped ==
    /\ intervalRef # << >>
    /\ skips' = skips + 1
    /\ UNCHANGED << testResult, analysis, variant, now, settings, isCapturing, isMonitoring, status, lastCheck,
                    intervalRef, alertLogic, heap, ticks, ocr, onLine, onlinePending,
                    alertQueue, pendingAlertCount, replays, sent, errors, fetches, events,
                    lastTick, outage, started, tests, flaps, sequential >>

\* analyzeFrame resolves and performCheck resumes.
AnalysisDone(i, result, d) ==
    /\ i \in 1..Len(ticks)
    /\ ticks[i].pc = "analyzing"
    /\ Detector(ticks[i].cl, ticks[i].logic, heap, outage, RemoveAt(ticks, i), result,
                now + d)
    /\ UNCHANGED << testResult, analysis, skips, variant, settings, isCapturing, isMonitoring, intervalRef, alertLogic,
                    ocr, onLine, onlinePending, started, tests, flaps, sequential >>

\* The body of analyzeFrame runs on the input `in` and performCheck resumes
\* with what it returns; if it throws, performCheck's catch block sets the
\* status to idle.
AnalyzeFrameSettles(i, in, d) ==
    /\ i \in 1..Len(ticks)
    /\ ticks[i].pc = "analyzing"
    /\ (in.service = "ocr") <=> (variant = "ocr")
    /\ LET out == AnalyzeFrame(in)
       IN  /\ analysis' = << [in |-> in, out |-> out] >>
           /\ IF out.tag = "return"
              THEN Detector(ticks[i].cl, ticks[i].logic, heap, outage, RemoveAt(ticks, i),
                            out.value, now + d)
              ELSE /\ status' = "idle"
                   /\ lastCheck' = lastCheck
                   /\ ticks' = RemoveAt(ticks, i)
                   /\ UNCHANGED << now, heap, outage, events, lastTick, alertQueue,
                                   pendingAlertCount, replays, sent, errors, fetches >>
    /\ UNCHANGED << testResult, skips, variant, settings, isCapturing, isMonitoring, intervalRef, alertLogic,
                    ocr, onLine, onlinePending, started, tests, flaps, sequential >>

\* Remote loop: the awaited meow fetch settles (ok: it resolved; otherwise it
\* rejected and the catch block logs); triggerAlert goes on to the webhook
\* and returns, and performCheck assigns lastAlertTime.
DispatchDone(i, ok) ==
    /\ i \in 1..Len(ticks)
    /\ ticks[i].pc = "dispatching"
    /\ LET tk == ticks[i]
           n1 == IF ok THEN Net ELSE DeliveryFailed(Net, QueuedAlert(tk.ev, "meow"))
       IN  /\ heap' = [heap EXCEPT ![tk.logic].lastAlertTime = tk.at]
           /\ SetNet(IF tk.cl.webhookUrl
                     THEN SendNow(n1, QueuedAlert(tk.ev, "webhook"))
                     ELSE n1)
    /\ status' = "alert"
    /\ lastCheck' = now
    /\ ticks' = RemoveAt(ticks, i)
    /\ UNCHANGED << testResult, analysis, skips, variant, now, settings, isCapturing, isMonitoring, intervalRef,
                    alertLogic, ocr, onLine, onlinePending, events, lastTick, outage,
                    started, tests, flaps, sequential >>

\* The promise of a webhook fetch made by triggerAlert settles; a rejection
\* runs its catch handler.
FetchSettles(k, ok) ==
    /\ k \in 1..Len(fetches)
    /\ SetNet(LET n1 == [Net EXCEPT !.fetches = RemoveAt(@, k)]
              IN  IF ok THEN n1 ELSE DeliveryFailed(n1, fetches[k]))
    /\ UNCHANGED << testResult, analysis, skips, variant, now, settings, isCapturing, isMonitoring, status, lastCheck, intervalRef,
                    alertLogic, heap, ticks, ocr, onLine, onlinePending, events, lastTick,
                    outage, started, tests, flaps, sequential >>

OcrInitDone ==
    /\ ocr.isInitializing
    /\ ocr' = OcrWorkerReady(ocr)
    /\ UNCHANGED << testResult, analysis, skips, variant, now, settings, isCapturing, isMonitoring, status, lastCheck, intervalRef,
                    alertLogic, heap, ticks, onLine, onlinePending, alertQueue,
                    pendingAlertCount, replays, sent, errors, fetches, events, lastTick, outage, started, tests,
                    flaps, sequential >>

\* Mutant: a failed initialization is started again.
OcrInitFail_Retries ==
    /\ ocr.isInitializing
    /\ ocr' = [ocr EXCEPT !.initError = TRUE]
    /\ UNCHANGED << testResult, analysis, skips, variant, now, settings, isCapturing, isMonitoring, status, lastCheck,
                    intervalRef, alertLogic, heap, ticks, onLine, onlinePending, alertQueue,
                    pendingAlertCount, replays, sent, errors, fetches, events, lastTick,
                    outage, started, tests, flaps, sequential >>

OcrInitFail ==
    /\ ocr.isInitializing
    /\ ocr' = [ocr EXCEPT !.initError = TRUE, !.isInitializing = FALSE, !.inits = @ - 1]
    /\ UNCHANGED << testResult, analysis, skips, variant, now, settings, isCapturing, isMonitoring, status, lastCheck, intervalRef,
                    alertLogic, heap, ticks, onLine, onlinePending, alertQueue,
                    pendingAlertCount, replays, sent, errors, fetches, events, lastTick, outage, started, tests,
                    flaps, sequential >>

\* The cleanup of the App's effect calls terminate() and does not await it.
Terminate ==
    /\ variant = "ocr"
    /\ ocr' = OcrTerminate(ocr)
    /\ UNCHANGED << testResult, analysis, skips, variant, now, settings, isCapturing, isMonitoring, status, lastCheck, intervalRef,
                    alertLogic, heap, ticks, onLine, onlinePending, alertQueue,
                    pendingAlertCount, replays, sent, errors, fetches, events, lastTick, outage, started, tests,
                    flaps, sequential >>

TerminateDone(i) ==
    /\ i \in 1..Len(ocr.terminating)
    /\ ocr' = OcrTerminated(ocr, i)
    /\ UNCHANGED << testResult, analysis, skips, variant, now, settings, isCapturing, isMonitoring, status, lastCheck, intervalRef,
                    alertLogic, heap, ticks, onLine, onlinePending, alertQueue,
                    pendingAlertCount, replays, sent, errors, fetches, events, lastTick, outage, started, tests,
                    flaps, sequential >>

\* handleFileUpload with the reader's onload: the file is read, analyzeFrame
\* is awaited and its result becomes testResult.  The detector is not
\* involved.
HandleFileUpload(file) ==
    /\ variant = "ocr"
    /\ IF ocr.initError
       THEN /\ testResult' = << [file |-> file,
                                 report |-> Report(InitErrorResult, OcrInitError, << >>)] >>
            /\ ocr' = ocr
       ELSE IF ~ocr.worker
       THEN /\ testResult' = << [file |-> file,
                                 report |-> Report(LoadingResult, OcrModelLoading, << >>)] >>
            /\ ocr' = OcrInit(ocr)
       ELSE /\ testResult' = LET out == OcrAnalyzeFile(file)
                             IN  IF out.tag = "return"
                                 THEN << [file |-> file, report |-> out.value] >>
                                 ELSE << >>
            /\ ocr' = ocr
    /\ UNCHANGED << analysis, skips, variant, now, settings, isCapturing, isMonitoring, status, lastCheck,
                    intervalRef, alertLogic, heap, ticks, onLine, onlinePending, alertQueue,
                    pendingAlertCount, replays, sent, errors, fetches, events, lastTick,
                    outage, started, tests, flaps, sequential >>

\* The manual test alert of the local-OCR loop: triggerAlert(..., 0).
HandleTestAlert ==
    /\ variant = "ocr"
    /\ tests' = tests + 1
    /\ events' = Append(events, AlertEvent(0, "test", 0))
    /\ SetNet(TriggerAlertOcr(Net, settings, Len(events) + 1, onLine))
    /\ UNCHANGED << testResult, analysis, skips, variant, now, settings, isCapturing, isMonitoring, status, lastCheck, intervalRef,
                    alertLogic, heap, ticks, ocr, onLine, onlinePending, lastTick, outage, started,
                    flaps, sequential >>

\* navigator.onLine turns false; handleOffline only logs.
NetDown ==
    /\ variant = "ocr"
    /\ onLine
    /\ flaps' = flaps + 1
    /\ onLine' = FALSE
    /\ UNCHANGED << testResult, analysis, skips, variant, now, settings, isCapturing, isMonitoring, status, lastCheck, intervalRef,
                    alertLogic, heap, ticks, ocr, onlinePending, alertQueue,
                    pendingAlertCount, replays, sent, errors, fetches, events, lastTick, outage, started, tests,
                    sequential >>

\* navigator.onLine turns true and an 'online' event is queued.
NetUp ==
    /\ variant = "ocr"
    /\ ~onLine
    /\ onLine' = TRUE
    /\ onlinePending' = TRUE
    /\ UNCHANGED << testResult, analysis, skips, variant, now, settings, isCapturing, isMonitoring, status, lastCheck, intervalRef,
                    alertLogic, heap, ticks, ocr, alertQueue, pendingAlertCount, replays,
                    sent, errors, fetches, events, lastTick, outage, started, tests, flaps, sequential >>

\* handleOnline: the connectivity-restored signal.
HandleOnline ==
    /\ onlinePending
    /\ onlinePending' = FALSE
    /\ SetNet(ProcessAlertQueue(Net))
    /\ UNCHANGED << testResult, analysis, skips, variant, now, settings, isCapturing, isMonitoring, status, lastCheck, intervalRef,
                    alertLogic, heap, ticks, ocr, onLine, events, lastTick, outage, started, tests,
                    flaps, sequential >>

\* A suspended processAlertQueue resumes: the iteration of its first item
\* ends (ok: the send succeeded; otherwise it threw), and the send of the
\* next item is initiated, or the function returns when none is left.
ReplayStep(i, ok) ==
    /\ i \in 1..Len(replays)
    /\ ok \/ CanFail(Head(replays[i]))
    /\ LET n1 == ReplaySettled(Net, Head(replays[i]), ok)
           rest == Tail(replays[i])
       IN  SetNet(IF Len(rest) = 0
                  THEN [n1 EXCEPT !.replays = RemoveAt(@, i)]
                  ELSE [n1 EXCEPT !.replays[i] = rest,
                                  !.sent = Append(@, Attempt(Head(rest), "replay"))])
    /\ UNCHANGED << testResult, analysis, skips, variant, now, settings, isCapturing, isMonitoring, status, lastCheck, intervalRef,
                    alertLogic, heap, ticks, ocr, onLine, onlinePending, events, lastTick,
                    outage, started, tests, flaps, sequential >>

\* The user edits a field of the settings panel: setSettings and a re-render.
\* The local-OCR panel has inputs for the meow code only (besides the sound
\* toggle and the interval); the remote panel also for the sensitivity and
\* the webhook URL.  The interval's performCheck is not replaced.
SetSettings(s) ==
    /\ s \in SettingsSet(variant)
    /\ s # settings
    /\ variant = "ocr" =>
          (s.sensitivity = settings.sensitivity /\ s.webhookUrl = settings.webhookUrl)
    /\ settings' = s
    /\ UNCHANGED << testResult, analysis, skips, variant, now, isCapturing, isMonitoring, status, lastCheck, intervalRef, alertLogic,
                    heap, ticks, ocr, onLine, onlinePending, alertQueue, pendingAlertCount,
                    replays, sent, errors, fetches, events, lastTick, outage, started, tests,
                    flaps, sequential >>

(***************************************************************************)
(* Specifications.  Each one runs the actions above in an environment      *)
(* that draws their inputs from small sets.                                *)
(***************************************************************************)
\* Bounds on the calls of performCheck: their number, and how many are
\* suspended at once.
MayStartTick == started < MaxTicks /\ Len(ticks) < MaxInFlight

\* Spec: the poll loop of both revisions, with overlapping ticks, restarts and
\* every analyzer outcome; connectivity stays up and no webhook is configured.
Init ==
    /\ variant \in {"ocr", "gemini"}
    /\ settings \in SettingsSet(variant)
    /\ InitApp
    /\ ~settings.webhookUrl
    /\ variant = "ocr" => ~settings.meowCode

Next ==
    \/ StartScreenCapture
    \/ MayStartTick /\ Len(heap) <= MaxSessions /\ \E d \in Steps : StartMonitoring(d)
    \/ StopMonitoring
    \/ MayStartTick /\ \E d \in Steps : TimerFires(d)
    \/ \E i \in 1..Len(ticks), d \in Steps :
          \E result \in AnalyzeResults(variant) : AnalysisDone(i, result, d)
    \/ \E i \in 1..Len(ticks) : DispatchDone(i, TRUE)
    \/ OcrInitDone
    \/ OcrInitFail

Spec == Init /\ [][Next]_vars

\* The local-OCR loop with sensitivity 0.7 on one uninterrupted outage: the
\* worker is ready before monitoring starts, ticks are processed one at a
\* time and every analysis reports a keyword match with recognizer
\* confidence 90.  Consecutive readings of Date.now() are `steps` apart, until
\* `horizon` after the first accepted tick.
InitOutage ==
    /\ variant = "ocr"
    /\ settings = [sensitivity |-> 70, meowCode |-> FALSE, webhookUrl |-> FALSE]
    /\ InitApp

OutageElapsed ==
    IF heap[alertLogic].disconnectStartTime = Null
    THEN 0
    ELSE now - heap[alertLogic].disconnectStartTime

OutageEnv(steps, horizon) ==
    \/ StartScreenCapture
    \/ OcrInitDone
    \/ ocr.worker /\ \E d \in steps : StartMonitoring(d)
    \/ ticks = << >> /\ \E d \in steps : TimerFires(d)
    \/ \E d \in steps :
          /\ OutageElapsed + d <= horizon
          /\ AnalysisDone(1, MatchResult(90), d)

\* SpecOutage: a tick every 5 s for 700 s of outage.
OutageMs == 700000
NextOutage == OutageEnv({5000}, OutageMs)
SpecOutage == InitOutage /\ [][NextOutage]_vars

\* SpecOnset: the first 90 s of an outage, readings 2.5 s or 5 s apart.
OnsetMs == 90000
NextOnset == OutageEnv({2500, 5000}, OnsetMs)
SpecOnset == InitOutage /\ [][NextOnset]_vars

\* SpecCadence: one uninterrupted outage of CadenceMs in the local-OCR loop
\* at a constant cadence, any of CadenceSteps: the readings of Date.now() are
\* as far apart as the first one is from the start (which is the value
\* disconnectStartTime gets).
CadenceMs == 700000
CadenceSteps == {5000, 15000, 20000, 25000, 60000}

NextCadence ==
    \/ StartScreenCapture
    \/ OcrInitDone
    \/ ocr.worker /\ \E d \in CadenceSteps : StartMonitoring(d)
    \/ ticks = << >> /\ \E d \in CadenceSteps : TimerFires(d)
    \/ \E d \in CadenceSteps :
          /\ now = 0 \/ d = heap[alertLogic].disconnectStartTime
          /\ OutageElapsed + d <= CadenceMs
          /\ AnalysisDone(1, MatchResult(90), d)

SpecCadence == InitOutage /\ [][NextCadence]_vars

\* SpecDuration: both loops, ticks one at a time, every analyzer result, the
\* manual test alert, and readings of Date.now() that bring elapsed to the
\* confirmation window and to just below the ceiling.
DurationSteps == {15000, 30000, 569500, 584500}

NextDuration ==
    \/ StartScreenCapture
    \/ OcrInitDone
    \/ /\ started < MaxTicks
       /\ Len(heap) <= MaxSessions
       /\ \E d \in DurationSteps : StartMonitoring(d)
    \/ ticks = << >> /\ started < MaxTicks /\ \E d \in DurationSteps : TimerFires(d)
    \/ \E d \in DurationSteps, result \in AnalyzeResults(variant) : AnalysisDone(1, result, d)
    \/ DispatchDone(1, TRUE)
    \/ tests < MaxTests /\ HandleTestAlert

SpecDuration == Init /\ [][NextDuration]_vars

\* SpecQueue: the local-OCR loop with its retry queue.  Connectivity is lost
\* and restored, alerts come from the detector (ticks one at a time, every
\* analysis a keyword match, readings 15 s apart) and from the manual test.
QueueStep == 15000

InitQueue ==
    /\ variant = "ocr"
    /\ settings \in SettingsSet("ocr")
    /\ settings.sensitivity = 60
    /\ InitApp

NextQueue ==
    \/ StartScreenCapture
    \/ OcrInitDone
    \/ ocr.worker /\ started < MaxTicks /\ Len(heap) <= MaxSessions /\ StartMonitoring(QueueStep)
    \/ ticks = << >> /\ started < MaxTicks /\ TimerFires(QueueStep)
    \/ AnalysisDone(1, MatchResult(95), QueueStep)
    \/ tests < MaxTests /\ HandleTestAlert
    \/ flaps < MaxFlaps /\ NetDown
    \/ NetUp
    \/ HandleOnline
    \/ \E i \in 1..Len(replays), ok \in BOOLEAN : ReplayStep(i, ok)

SpecQueue == InitQueue /\ [][NextQueue]_vars

\* SpecQueueLive: SpecQueue where a queued 'online' event is dispatched and
\* an awaited send or delay of a replay settles, each in the end.
SpecQueueLive ==
    /\ SpecQueue
    /\ WF_vars(HandleOnline)
    /\ WF_vars(\E i \in 1..Len(replays), ok \in BOOLEAN : ReplayStep(i, ok))

\* SpecLoading: the local-OCR loop with its retry queue while the OCR backend
\* may still be loading: monitoring can start before the worker is ready.
\* The 'online' event is not dispatched and replays stay suspended.
NextLoading ==
    \/ StartScreenCapture
    \/ OcrInitDone
    \/ started < MaxTicks /\ Len(heap) <= MaxSessions /\ StartMonitoring(QueueStep)
    \/ ticks = << >> /\ started < MaxTicks /\ TimerFires(QueueStep)
    \/ \E result \in {MatchResult(95), NoMatchResult} : AnalysisDone(1, result, QueueStep)
    \/ tests < MaxTests /\ HandleTestAlert
    \/ flaps < MaxFlaps /\ NetDown
    \/ NetUp

SpecLoading == InitQueue /\ [][NextLoading]_vars

\* SpecDelivery: both loops with connectivity up and any destinations; ticks
\* one at a time, every analysis an accepted result, and immediate
\* deliveries that succeed or fail.
DeliverySteps == {30000, 60000}

InitDelivery ==
    /\ variant \in {"ocr", "gemini"}
    /\ settings \in SettingsSet(variant)
    /\ settings.sensitivity \in {60, 70}
    /\ InitApp

NextDelivery ==
    \/ StartScreenCapture
    \/ OcrInitDone
    \/ /\ variant = "ocr" => ocr.worker
       /\ started < MaxTicks
       /\ Len(heap) <= MaxSessions
       /\ \E d \in DeliverySteps : StartMonitoring(d)
    \/ ticks = << >> /\ started < MaxTicks /\ \E d \in DeliverySteps : TimerFires(d)
    \/ \E d \in DeliverySteps :
          AnalysisDone(1, IF variant = "ocr" THEN MatchResult(95) ELSE RemoteResult(TRUE, 70), d)
    \/ \E ok \in BOOLEAN : DispatchDone(1, ok)
    \/ \E k \in 1..Len(fetches), ok \in BOOLEAN : FetchSettles(k, ok)

SpecDelivery == InitDelivery /\ [][NextDelivery]_vars

\* SpecSettings: both loops, ticks one at a time, with the settings edited at
\* any moment.
SettingsSteps == {15000, 30000}

NextSettings ==
    \/ StartScreenCapture
    \/ OcrInitDone
    \/ /\ started < MaxTicks
       /\ Len(heap) <= MaxSessions
       /\ \E d \in SettingsSteps : StartMonitoring(d)
    \/ StopMonitoring
    \/ ticks = << >> /\ started < MaxTicks /\ \E d \in SettingsSteps : TimerFires(d)
    \/ \E d \in SettingsSteps, result \in AnalyzeResults(variant) : AnalysisDone(1, result, d)
    \/ DispatchDone(1, TRUE)
    \/ \E s \in SettingsSet(variant) : SetSettings(s)

SpecSettings == Init /\ [][NextSettings]_vars

\* SpecRestart: both loops without destinations, with overlapping ticks and
\* one more monitoring session than Spec allows; every analysis is a match
\* (local OCR) or a report of a disconnection (remote).
RestartSteps == {15000, 30000}

InitRestart ==
    /\ Init
    /\ ~settings.meowCode

NextRestart ==
    \/ StartScreenCapture
    \/ OcrInitDone
    \/ /\ MayStartTick
       /\ Len(heap) <= MaxSessions + 1
       /\ \E d \in RestartSteps : StartMonitoring(d)
    \/ StopMonitoring
    \/ MayStartTick /\ \E d \in RestartSteps : TimerFires(d)
    \/ \E i \in 1..Len(ticks), d \in RestartSteps :
          AnalysisDone(i, IF variant = "ocr" THEN MatchResult(95) ELSE RemoteResult(TRUE, 70), d)

SpecRestart == InitRestart /\ [][NextRestart]_vars

\* SpecAnalyzer: both loops without destinations, ticks one at a time, with
\* every course the body of analyzeFrame can take.
AnalyzerSteps == {30000}

NextAnalyzer ==
    \/ StartScreenCapture
    \/ OcrInitDone
    \/ /\ started < MaxTicks
       /\ Len(heap) <= MaxSessions
       /\ \E d \in AnalyzerSteps : StartMonitoring(d)
    \/ ticks = << >> /\ started < MaxTicks /\ \E d \in AnalyzerSteps : TimerFires(d)
    \/ \E in \in AnalyzerInputs(variant), d \in AnalyzerSteps : AnalyzeFrameSettles(1, in, d)

SpecAnalyzer == InitRestart /\ [][NextAnalyzer]_vars

\* SpecCapture: SpecAnalyzer with ticks on which no frame can be drawn.
NextCapture ==
    \/ NextAnalyzer
    \/ skips < MaxTicks /\ TickSkipped

SpecCapture == InitRestart /\ [][NextCapture]_vars

\* SpecRange: SpecAnalyzer with remote answers whose JSON carries any number
\* as confidence, or none (Null).
RangeConfidences == {Null, 0, 70, 100, 150}

RangeInputs(v) ==
    IF v = "ocr"
    THEN OcrInputs
    ELSE [service : {"direct"}, generate : {"ok"}, text : {"json", "fenced"},
          b : BOOLEAN, conf : RangeConfidences]
         \cup [service : {"proxy"}, fetch : {"ok"}, contentType : {"json"}, ok : {TRUE},
               body : {"json"}, b : BOOLEAN, conf : RangeConfidences]

NextRange ==
    \/ StartScreenCapture
    \/ OcrInitDone
    \/ /\ started < MaxTicks
       /\ Len(heap) <= MaxSessions
       /\ \E d \in AnalyzerSteps : StartMonitoring(d)
    \/ ticks = << >> /\ started < MaxTicks /\ \E d \in AnalyzerSteps : TimerFires(d)
    \/ \E in \in RangeInputs(variant), d \in AnalyzerSteps : AnalyzeFrameSettles(1, in, d)

SpecRange == InitRestart /\ [][NextRange]_vars

\* SpecUpload: the image test on recognized texts.  A text is up to
\* MaxTokens pieces out of Tokens put together; the recognizer's confidence
\* takes every value when the text holds a keyword.
RECURSIVE Concat(_)
Concat(pieces) ==
    IF pieces = << >> THEN << >> ELSE Head(pieces) \o Concat(Tail(pieces))

Tokens ==
    { << 32593, 32476 >>,                 \* the first half of keyword 1
      << 38169, 35823 >>,                 \* the second half of keyword 1
      << 36830, 25509, 36229, 26102 >>,   \* keyword 7
      << 32 >>,                           \* a space
      << 65292 >>,                        \* a full-width comma
      << 84, 105, 109, 101, 100 >>,       \* Timed
      << 79, 117, 116 >> }                \* Out

Texts == { Concat(pieces) : pieces \in UNION { [1..n -> Tokens] : n \in 0..MaxTokens } }

BlankImage == [i \in 1..ImagePixels |-> [r |-> 255, g |-> 255, b |-> 255]]

TextFile(text, conf) ==
    [load |-> "ok", ctx |-> TRUE, pixels |-> BlankImage, recognize |-> "ok",
     text |-> text, conf |-> conf]

TextFiles ==
    { TextFile(text, 95) : text \in Texts }
    \cup { TextFile(errorKeywords[1].source, conf) : conf \in 0..ConfidenceScale }

InitUpload == Init /\ variant = "ocr" /\ settings.sensitivity = 60

NextUpload ==
    \/ OcrInitDone
    \/ OcrInitFail
    \/ testResult = << >> /\ \E file \in TextFiles : HandleFileUpload(file)

SpecUpload == InitUpload /\ [][NextUpload]_vars

\* SpecPreprocess: the image test on images of ImagePixels pixels, with the
\* ways preprocessImage and recognize can end.
Channels == {0, 128, 255}
Images == [1..ImagePixels -> [r : Channels, g : Channels, b : Channels]]

ImageFiles ==
    [load : {"ok", "error"}, ctx : BOOLEAN, pixels : Images, recognize : {"ok"},
     text : {errorKeywords[1].source}, conf : {95}]
    \cup [load : {"ok", "error"}, ctx : BOOLEAN, pixels : {BlankImage}, recognize : {"reject"},
          text : {errorKeywords[1].source}, conf : {95}]

NextPreprocess ==
    \/ OcrInitDone
    \/ OcrInitFail
    \/ testResult = << >> /\ \E file \in ImageFiles : HandleFileUpload(file)

SpecPreprocess == InitUpload /\ [][NextPreprocess]_vars

(***************************************************************************)
(* Properties of the detector, checked under Spec.                         *)
(***************************************************************************)
\* The step is a tick that got a result (a detector step, or the early
\* return on the loading placeholder).
TickStep == lastTick'.n # lastTick.n

\* elapsed = now - disconnectStartTime as the most recent tick saw it: 0 on
\* the tick that sets disconnectStartTime.
LastElapsed ==
    IF lastTick.before.disconnectStartTime = Null
    THEN 0
    ELSE now - lastTick.before.disconnectStartTime

\* C1: the tick that moves Connected to Suspected emits no AlertEvent, no
\* tick with elapsed below the confirmation window emits one, and an
\* accepted tick at elapsed = confirmation window with lastAlertTime null
\* emits one.
C1_ConfirmationWindow ==
    lastTick.n > 0 =>
        /\ (lastTick.accepted /\ lastTick.before.disconnectStartTime = Null)
              => ~lastTick.alerted
        /\ LastElapsed < ConfirmWindow(variant) => ~lastTick.alerted
        /\ ( /\ lastTick.accepted
             /\ LastElapsed = ConfirmWindow(variant)
             /\ lastTick.before.lastAlertTime = Null )
              => lastTick.alerted

C1_Witness ==
    /\ lastTick.accepted
    /\ LastElapsed = ConfirmWindow(variant)
    /\ lastTick.before.lastAlertTime = Null
    /\ lastTick.alerted
    /\ events # << >>

\* C2: with ticks processed one at a time, no tick emits an AlertEvent while
\* now - lastAlertTime < 60 s, and two consecutive AlertEvents of one
\* uninterrupted outage are at least 60 s apart.
C2_RepeatInterval ==
    (sequential /\ lastTick.n > 0) =>
        /\ ( /\ lastTick.before.lastAlertTime # Null
             /\ now - lastTick.before.lastAlertTime < 60000 )
              => ~lastTick.alerted
        /\ (lastTick.alerted /\ lastTick.gap # Null) => lastTick.gap >= 60000

C2_Witness ==
    /\ sequential
    /\ lastTick.alerted
    /\ lastTick.gap # Null
    /\ lastTick.gap = 60000

\* C3: an accepted tick that finds elapsed >= 600 s, or that follows one in
\* the same outage, emits no AlertEvent and leaves disconnectStartTime and
\* lastAlertTime as they were.
C3_Ceased ==
    [][ ( /\ TickStep
          /\ lastTick'.accepted
          /\ \/ /\ lastTick'.logic \in DOMAIN outage
                /\ outage[lastTick'.logic].ceased > 0
             \/ /\ lastTick'.before.disconnectStartTime # Null
                /\ now' - lastTick'.before.disconnectStartTime >= 600000 )
        => /\ events' = events
           /\ ~lastTick'.alerted
           /\ heap'[lastTick'.logic] = lastTick'.before ]_vars

C3_Witness ==
    /\ lastTick.accepted
    /\ outage[lastTick.logic].ceased >= 2
    /\ heap[lastTick.logic].disconnectStartTime # Null

\* C4: a tick with a non-accepted result that is processed while
\* disconnectStartTime is non-null sets disconnectStartTime and lastAlertTime
\* to null, and the next accepted tick sets disconnectStartTime to its own
\* time and emits nothing.
C4_Reset ==
    [][ TickStep =>
          /\ (~lastTick'.accepted /\ lastTick'.before.disconnectStartTime # Null)
                => heap'[lastTick'.logic] = EmptyLogic
          /\ (lastTick'.accepted /\ lastTick'.before.disconnectStartTime = Null)
                => /\ heap'[lastTick'.logic].disconnectStartTime = now'
                   /\ events' = events ]_vars

\* A reset out of Alerting (lastAlertTime was set).
C4_Witness ==
    /\ lastTick.n > 0
    /\ ~lastTick.accepted
    /\ lastTick.before.disconnectStartTime # Null
    /\ lastTick.before.lastAlertTime # Null
    /\ heap[lastTick.logic] = EmptyLogic

\* C5: a result is accepted exactly when isDisconnected is true and its
\* confidence is at least the sensitivity; a tick whose result has
\* isDisconnected true and a confidence below the sensitivity leaves
\* disconnectStartTime null and emits nothing.
C5_Accepted ==
    [][ TickStep =>
          /\ lastTick'.accepted <=>
                (lastTick'.result.isDisconnected
                 /\ lastTick'.result.confidence >= lastTick'.sens)
          /\ (lastTick'.result.isDisconnected /\ lastTick'.result.confidence < lastTick'.sens)
                => /\ heap'[lastTick'.logic].disconnectStartTime = Null
                   /\ events' = events
                   /\ status' # "alert" ]_vars

C5_Witness ==
    /\ variant = "gemini"
    /\ lastTick.n >= 2
    /\ lastTick.result.isDisconnected
    /\ lastTick.result.confidence < lastTick.sens
    /\ heap[lastTick.logic].disconnectStartTime = Null
    /\ events = << >>

\* C6: with ticks processed one at a time, disconnectStartTime of the
\* session's logic object is non-null exactly when the session's most
\* recently processed result was an accepted one.
C6_StartTimeIffAccepted ==
    sequential =>
        ( heap[alertLogic].disconnectStartTime # Null
          <=> (lastTick.logic = alertLogic /\ lastTick.accepted) )

C6_Witness ==
    /\ sequential
    /\ lastTick.n >= 3
    /\ lastTick.accepted
    /\ heap[alertLogic].disconnectStartTime # Null
    /\ heap[alertLogic].disconnectStartTime = now

(***************************************************************************)
(* Properties of an uninterrupted outage, checked under SpecOnset and      *)
(* SpecOutage.                                                             *)
(***************************************************************************)
\* Every reading so far was 5 s after the one before: the n-th tick reads
\* 5000 * n, and the first accepted tick is the one at 5000.
Cadence5 == lastTick.n > 0 /\ now = 5000 * lastTick.n

Durations == [i \in 1..Len(events) |-> events[i].dur]

\* C7: with an accepted tick every 5 s the ticks 0, 5 and 10 s after the
\* first accepted one emit nothing and the one at 15 s emits the first
\* AlertEvent, with durationSeconds 15; and every AlertEvent carries
\* durationSeconds = floor((now - disconnectStartTime) / 1000).
C7_FirstAlert ==
    /\ (Cadence5 /\ lastTick.n <= 3) => events = << >>
    /\ (Cadence5 /\ lastTick.n = 4) => (lastTick.alerted /\ Durations = << 15 >>)
    /\ (lastTick.n > 0 /\ lastTick.alerted) =>
          /\ events # << >>
          /\ 1000 * events[Len(events)].dur <= LastElapsed
          /\ LastElapsed < 1000 * events[Len(events)].dur + 1000

C7_Witness ==
    /\ Cadence5
    /\ lastTick.n = 4
    /\ LastElapsed = 15000
    /\ lastTick.alerted
    /\ Durations = << 15 >>

\* The AlertEvents expected by `elapsed` ms after the first accepted tick when
\* they are emitted at 15 s, 75 s, ... up to the `last`-th of them.
ExpectedDurations(elapsed, last) ==
    LET k == IF elapsed < 15000 THEN 0 ELSE ((elapsed - 15000) \div 60000) + 1
        n == IF k < last THEN k ELSE last
    IN  [i \in 1..n |-> 15 + 60 * (i - 1)]

\* C8 as amended: with an accepted tick every 5 s for 700 s the AlertEvents
\* are emitted at 15, 75, 135, ..., 555 s after the first accepted tick, the
\* one at 555 s being the last.
C8_AlertTimes ==
    Cadence5 => Durations = ExpectedDurations(LastElapsed, 10)

C8_Witness ==
    /\ Cadence5
    /\ LastElapsed = 700000
    /\ Len(events) = 10
    /\ events[10].dur = 555

\* C8 as stated: AlertEvents at 15, 75, ..., 615 s, the one at 615 s being the
\* last.
C8_AsStated ==
    Cadence5 => Durations = ExpectedDurations(LastElapsed, 11)

(***************************************************************************)
(* Properties of the retry queue, checked under SpecQueue.                 *)
(***************************************************************************)
\* The QueuedAlerts of AlertEvent number ev, one per configured destination,
\* in the order triggerAlert handles the destinations.
Destinations(cl, ev) ==
    (IF cl.meowCode THEN << QueuedAlert(ev, "meow") >> ELSE << >>)
    \o (IF cl.webhookUrl THEN << QueuedAlert(ev, "webhook") >> ELSE << >>)

\* The step hands an AlertEvent to triggerAlert.
DispatchStep == Len(events') = Len(events) + 1

\* C9: a dispatch (from the detector or the manual test) made while
\* navigator.onLine is false initiates no send and appends exactly one
\* QueuedAlert per configured destination to the tail of the retry queue; no
\* QueuedAlert is in the queue twice.
C9_OfflineDispatchQueues ==
    [][ /\ (DispatchStep /\ ~onLine) =>
              /\ sent' = sent
              /\ replays' = replays
              /\ alertQueue' = alertQueue \o Destinations(settings, Len(events'))
              /\ pendingAlertCount' =
                    pendingAlertCount + Len(Destinations(settings, Len(events')))
        /\ \A i, j \in DOMAIN alertQueue' :
              alertQueue'[i] = alertQueue'[j] => i = j ]_vars

\* Offline, a manual test and then a detector alert were queued for both
\* destinations and nothing was sent.
C9_Witness ==
    /\ ~onLine
    /\ sent = << >>
    /\ Len(events) = 2
    /\ events[1].src = "test"
    /\ events[2].src = "detector"
    /\ alertQueue = << QueuedAlert(1, "meow"), QueuedAlert(1, "webhook"),
                       QueuedAlert(2, "meow"), QueuedAlert(2, "webhook") >>
    /\ pendingAlertCount = 4

\* Position of a send attempt in the order of enqueueing: AlertEvents in the
\* order they were dispatched, the meow trigger before the webhook.
EnqueueRank(a) == 2 * a.ev + (IF a.type = "webhook" THEN 1 ELSE 0)

\* C10: the send attempts of replayed alerts are initiated in the order the
\* alerts were enqueued, over every sequence of connectivity changes and
\* enqueues, also for alerts enqueued while an earlier replay is in progress.
C10_ReplayFifo ==
    \A i, j \in DOMAIN sent :
        (i < j /\ sent[i].via = "replay" /\ sent[j].via = "replay")
            => EnqueueRank(sent[i]) < EnqueueRank(sent[j])

\* The step resumes a suspended processAlertQueue (it does not start one).
ReplayResumes == replays' # replays /\ Len(replays') <= Len(replays)

ReplayAttempts == SelectSeq(sent, LAMBDA a : a.via = "replay")

\* C11: when a suspended replay resumes, after a send that succeeded or one
\* that failed, the retry queue and its counter are unchanged; a failure is
\* logged and the send of the replay's next item is initiated in the same
\* step; and no QueuedAlert is the subject of two replay attempts.
C11_ReplayNoRequeue ==
    [][ /\ ReplayResumes =>
              /\ alertQueue' = alertQueue
              /\ pendingAlertCount' = pendingAlertCount
        /\ Len(errors') > Len(errors) =>
              \E i \in DOMAIN replays :
                 /\ errors' = Append(errors, Attempt(Head(replays[i]), "replay"))
                 /\ alertQueue' = alertQueue
                 /\ IF Len(replays[i]) > 1
                    THEN sent' = Append(sent, Attempt(replays[i][2], "replay"))
                    ELSE sent' = sent
        /\ \A j, k \in DOMAIN ReplayAttempts' :
              ReplayAttempts'[j] = ReplayAttempts'[k] => j = k ]_vars

\* The webhook of the first alert failed in a replay, and the replay went on
\* to the second alert; everything is done and the queue is empty.
C11_Witness ==
    /\ errors = << Attempt(QueuedAlert(1, "webhook"), "replay") >>
    /\ ReplayAttempts = << Attempt(QueuedAlert(1, "meow"), "replay"),
                           Attempt(QueuedAlert(1, "webhook"), "replay"),
                           Attempt(QueuedAlert(2, "meow"), "replay"),
                           Attempt(QueuedAlert(2, "webhook"), "replay") >>
    /\ replays = << >>
    /\ alertQueue = << >>
    /\ pendingAlertCount = 0

(***************************************************************************)
(* Properties of immediate delivery, checked under SpecDelivery.           *)
(***************************************************************************)
\* The send attempts made so far for AlertEvent number ev.
AttemptsOf(ev) == SelectSeq(sent, LAMBDA a : a.ev = ev)

DirectAttempts(cl, ev) ==
    [i \in 1..Len(Destinations(cl, ev)) |-> Attempt(Destinations(cl, ev)[i], "direct")]

\* A triggerAlert of the remote loop is suspended at its meow fetch.
Dispatching == \E i \in DOMAIN ticks : ticks[i].pc = "dispatching"

\* C12: with connectivity up, every AlertEvent gets exactly one immediate
\* send attempt per configured destination, whether or not deliveries fail
\* (while the remote loop awaits its meow fetch, the meow attempt only); the
\* retry queue stays empty and no replay is started; and once the alerting
\* tick has returned, lastAlertTime is the time that tick read.
C12_OnlineFailureNoRetry ==
    /\ alertQueue = << >>
    /\ pendingAlertCount = 0
    /\ replays = << >>
    /\ \A e \in DOMAIN events :
          AttemptsOf(e) =
             IF Dispatching /\ e = Len(events)
             THEN << Attempt(QueuedAlert(e, "meow"), "direct") >>
             ELSE DirectAttempts(settings, e)
    /\ (lastTick.alerted /\ ~Dispatching) => heap[lastTick.logic].lastAlertTime = now

\* The meow fetch of the first alert failed; the tick set lastAlertTime all
\* the same, and the next attempt came with the second alert, 60 s later.
C12_Witness ==
    /\ variant = "gemini"
    /\ settings.meowCode
    /\ errors # << >>
    /\ errors[1] = Attempt(QueuedAlert(1, "meow"), "direct")
    /\ Len(events) = 2
    /\ ~Dispatching
    /\ lastTick.gap = RepeatInterval
    /\ heap[alertLogic].lastAlertTime = now
    /\ AttemptsOf(2) = DirectAttempts(settings, 2)

(***************************************************************************)
(* Properties of the scheduling of ticks and replays.                      *)
(***************************************************************************)
\* C13: no two calls of performCheck are in flight at the same time: a tick
\* that is due while another one awaits its analysis or its dispatch is
\* skipped.  (Spec)
C13_TicksDoNotOverlap == Len(ticks) <= 1

\* A suspended performCheck resumes and returns.
TickCompletes == ticks' # ticks /\ Len(ticks') <= Len(ticks)

\* C14: a performCheck that completes after stopMonitoring, with monitoring
\* still stopped, changes neither disconnectStartTime nor lastAlertTime of
\* any logic object and emits no AlertEvent.  (Spec)
C14_NoMutationAfterStop ==
    [][ (~isMonitoring /\ ~isMonitoring' /\ TickCompletes)
            => (heap' = heap /\ events' = events) ]_vars

\* C15: at most one processAlertQueue is in flight at any time.  (SpecQueue)
C15_SingleReplay == Len(replays) <= 1

\* A call of performCheck suspends at analyzeFrame.
TickStarts == Len(ticks') = Len(ticks) + 1 /\ started' = started + 1

\* C16: a tick that starts works with the settings as they are when it
\* starts, so that an edit made while monitoring runs is in force from the
\* next tick on.  (SpecSettings)
C16_NextTickUsesSettings ==
    [][ TickStarts => ticks'[Len(ticks')].cl = settings ]_vars

\* C17: startMonitoring installs an empty logic object, and every tick that
\* completes reads and writes the object of the current session, so that
\* every AlertEvent is decided from it.  (SpecRestart)
C17_FreshInstance ==
    [][ /\ alertLogic' # alertLogic => heap'[alertLogic'] = EmptyLogic
        /\ TickCompletes => lastTick'.logic = alertLogic'
        /\ DispatchStep => events'[Len(events')].logic = alertLogic' ]_vars

(***************************************************************************)
(* Properties of the analyzers' failure handling.                          *)
(***************************************************************************)
\* C18: a tick whose analysis failed ('OCR Failed', 'Analysis Failed',
\* 'Request Failed') leaves disconnectStartTime and lastAlertTime of a
\* Suspected or Alerting detector as they were.  (Spec)
C18_FailureKeepsState ==
    [][ ( /\ TickStep
          /\ lastTick'.result = FailedResult
          /\ lastTick'.before.disconnectStartTime # Null )
            => heap'[lastTick'.logic] = lastTick'.before ]_vars

\* Something fails inside analyzeFrame on the input `in`: preprocessing or
\* recognition (local OCR); the model call, or a response that is empty or not
\* JSON (remote, direct); the request, an HTML answer, an error status or a
\* body that response.json() does not parse (remote, via the proxy).
InternalFailure(in) ==
    IF in.service = "ocr" THEN in.preprocess = "reject" \/ in.recognize = "reject"
    ELSE IF in.service = "direct"
    THEN in.generate = "reject" \/ in.text \in {"empty", "garbage"}
    ELSE in.fetch = "reject" \/ in.contentType = "html" \/ ~in.ok \/ in.body # "json"

\* C19: analyzeFrame of the local-OCR service, of the direct remote service
\* and of the proxy service never throws; when something fails inside, it
\* returns a result with isDisconnected false and confidence 0, and the
\* tick does not accept it.  (SpecAnalyzer)
C19_NeverThrows ==
    analysis # << >> =>
        /\ analysis[1].out.tag = "return"
        /\ InternalFailure(analysis[1].in) =>
              /\ analysis[1].out.value \in {FailedResult, ApiRouteErrorResult}
              /\ ~analysis[1].out.value.isDisconnected
              /\ analysis[1].out.value.confidence = 0
              /\ lastTick.result = analysis[1].out.value
              /\ ~lastTick.accepted
              /\ \A sens \in 0..100 : ~Accepted(analysis[1].out.value, sens)

\* The proxy answered with an error status during an outage: the tick got
\* the failure result.
C19_Witness ==
    /\ analysis # << >>
    /\ analysis[1].in.service = "proxy"
    /\ analysis[1].in.fetch = "ok"
    /\ analysis[1].in.contentType = "json"
    /\ ~analysis[1].in.ok
    /\ analysis[1].out = Return(FailedResult)
    /\ lastTick.n = 3
    /\ lastTick.result = FailedResult
    /\ ~lastTick.accepted

\* C20: a tick of the local-OCR loop whose analyzeFrame call is made while
\* the OCR backend is still initializing gets the loading placeholder
\* (isDisconnected false, confidence 0); it is not accepted, emits nothing,
\* does not set the status to alert, and leaves the logic object as a tick
\* with a non-accepted verdict would leave it.  (Spec)
C20_LoadingTick ==
    [][ (TickStep /\ variant = "ocr" /\ ~ocr.worker /\ ~ocr.initError) =>
          /\ lastTick'.result.kind = "loading"
          /\ ~lastTick'.result.isDisconnected
          /\ lastTick'.result.confidence = 0
          /\ ~Accepted(lastTick'.result, lastTick'.sens)
          /\ ~lastTick'.accepted
          /\ ~lastTick'.alerted
          /\ events' = events
          /\ status' # "alert"
          /\ heap'[lastTick'.logic] =
                Detect(variant, lastTick'.before, NoMatchResult, lastTick'.sens, now').logic
      ]_vars

\* The second tick of a session also found the backend still loading.
C20_Witness ==
    /\ variant = "ocr"
    /\ ocr.isInitializing
    /\ lastTick.n = 2
    /\ lastTick.result = LoadingResult
    /\ heap[lastTick.logic] = EmptyLogic
    /\ events = << >>
    /\ status = "scanning"

\* C21: once the initialization of the OCR backend has failed, the service
\* stays as it is (no worker, no initialization in flight), and every tick
\* gets the Init-Error result (isDisconnected false, confidence 0), never the
\* loading placeholder or a recognition result.  (Spec)
C21_InitErrorIsPermanent ==
    [][ (variant = "ocr" /\ ocr.initError) =>
          /\ ~ocr.worker
          /\ ~ocr.isInitializing
          /\ ocr' = ocr
          /\ ticks' = << >>
          /\ TickStep =>
                /\ lastTick'.result.kind = "initerror"
                /\ ~lastTick'.result.isDisconnected
                /\ lastTick'.result.confidence = 0
                /\ ~lastTick'.accepted ]_vars

\* Three ticks in a row got the Init-Error result.
C21_Witness ==
    /\ variant = "ocr"
    /\ ocr.initError
    /\ lastTick.n = 3
    /\ lastTick.result = InitErrorResult
    /\ lastTick.before = EmptyLogic
    /\ events = << >>

\* The tick that completes had captured an image that does not load (an
\* empty or undecodable data URL): preprocessImage rejected.
FrameUndecodable ==
    /\ TickStep
    /\ TickCompletes
    /\ analysis' # << >>
    /\ analysis'[1].in.service = "ocr"
    /\ analysis'[1].in.preprocess = "reject"

\* C22: a tick on which the capture source supplies no frame (missing
\* element, no 2d context, or a captured image that is empty or cannot be
\* decoded) changes no logic object and emits no AlertEvent.  (SpecCapture)
C22_NoFrameNoMutation ==
    [][ (skips' # skips \/ FrameUndecodable) => (heap' = heap /\ events' = events) ]_vars

\* The service answered with the JSON result wrapped in a markdown code
\* fence, and nothing else went wrong.
FencedJson(in) ==
    IF in.service = "direct" THEN in.generate = "ok" /\ in.text = "fenced"
    ELSE IF in.service = "proxy"
    THEN in.fetch = "ok" /\ in.contentType = "json" /\ in.ok /\ in.body = "fenced"
    ELSE FALSE

\* C23: the remote analyzer (direct or via the proxy) returns the result
\* carried by a fenced JSON answer; on a transport failure, an error status,
\* an HTML answer or an answer that cannot be parsed it returns a result
\* with isDisconnected false and confidence 0 and does not throw.
\* (SpecAnalyzer)
C23_RemoteRecovers ==
    (analysis # << >> /\ analysis[1].in.service # "ocr") =>
        /\ analysis[1].out.tag = "return"
        /\ FencedJson(analysis[1].in) =>
              analysis[1].out.value = RemoteResult(analysis[1].in.b, analysis[1].in.conf)
        /\ (InternalFailure(analysis[1].in) /\ ~FencedJson(analysis[1].in)) =>
              /\ ~analysis[1].out.value.isDisconnected
              /\ analysis[1].out.value.confidence = 0


\* C25: every result that reaches the detector, from either analyzer, has a
\* confidence in [0, 1]; a remote result whose JSON carries a confidence
\* out of that range, or none, is not taken as an accepted verdict.
C25_ConfidenceInRange ==
    (lastTick.n > 0 /\ lastTick.accepted) => lastTick.result.confidence \in 0..100

(***************************************************************************)
(* Properties of the local analyzer, checked under SpecUpload and          *)
(* SpecPreprocess.                                                         *)
(***************************************************************************)
\* The last upload was analyzed by a ready worker whose recognize resolved
\* on an image that was preprocessed.
Recognized ==
    /\ testResult # << >>
    /\ testResult[1].report.result.kind \in {"match", "nomatch"}

\* Some keyword pattern matches the text without the characters the
\* normalization removes.
Separators == {32, 65292}
Stripped(text) == SelectSeq(text, LAMBDA ch : ch \notin Separators)
Hits(text) == { i \in 1..Len(errorKeywords) : Test(errorKeywords[i], Stripped(text)) }

\* C24: whenever a keyword pattern matches the normalized text, the local
\* analyzer reports isDisconnected with confidence max(0.85, c/100) for the
\* recognizer's confidence c in 0..100: at least 0.85, also for c = 0, at
\* most 1, and accepted by the detector for every sensitivity up to 0.85.
C24_KeywordFloor ==
    (Recognized /\ Hits(testResult[1].file.text) # {}) =>
        LET c == testResult[1].file.conf
            result == testResult[1].report.result
        IN  /\ result.isDisconnected
            /\ result.confidence = (IF c >= 85 THEN c ELSE 85)
            /\ result.confidence >= 85
            /\ result.confidence <= 100
            /\ \A sensitivity \in 0..85 : Accepted(result, sensitivity)

C24_Witness ==
    /\ Recognized
    /\ Hits(testResult[1].file.text) # {}
    /\ testResult[1].file.conf = 0
    /\ testResult[1].report.result.confidence = 85
    /\ Accepted(testResult[1].report.result, 85)


\* The last upload reached the try block of analyzeFrame (a worker existed).
Analyzed ==
    /\ testResult # << >>
    /\ testResult[1].report.result.kind \in {"match", "nomatch", "failed"}

\* C26: preprocess never fails; without a drawing context, and on an image
\* that fails to load or decode, it returns the original frame, and
\* recognition runs on that frame.
C26_PreprocessTotal ==
    (Analyzed /\ testResult[1].file.recognize = "ok") =>
        LET file == testResult[1].file
            report == testResult[1].report
        IN  /\ PreprocessImage(file).tag = "return"
            /\ report.result.kind \in {"match", "nomatch"}
            /\ (file.load = "error" \/ ~file.ctx) =>
                  /\ PreprocessImage(file).value = file.pixels
                  /\ report.processedImage = file.pixels

\* An image of black and white pixels only.
IsBinarized(pixels) ==
    \A i \in DOMAIN pixels :
        /\ pixels[i].r \in {0, 255}
        /\ pixels[i].g = pixels[i].r
        /\ pixels[i].b = pixels[i].r

\* C27: the output of the binarization step holds only the values 0 and
\* 255, the step applied to its own output returns that output, and an image
\* whose pixels are all 0 or 255 comes out as it went in (threshold 160).
C27_BinarizeIdempotent ==
    (Recognized /\ testResult[1].file.ctx) =>
        LET pixels == testResult[1].file.pixels
            processedImage == testResult[1].report.processedImage
        IN  /\ DOMAIN processedImage = DOMAIN pixels
            /\ IsBinarized(processedImage)
            /\ BinarizeImage(processedImage) = processedImage
            /\ IsBinarized(pixels) => processedImage = pixels

C27_Witness ==
    /\ Recognized
    /\ testResult[1].file.ctx
    /\ IsBinarized(testResult[1].file.pixels)
    /\ testResult[1].file.pixels[1].r = 0
    /\ testResult[1].file.pixels[2].r = 255
    /\ testResult[1].report.processedImage = testResult[1].file.pixels

\* C28: keywords are looked for in the text without any character other
\* than CJK ideographs and ASCII letters and digits, so a keyword that white
\* space or punctuation splits in the raw text still matches; reason carries
\* the substring matched by the first pattern of the list that matches, also
\* when a later pattern matches earlier in the text; and the result is 'No
\* error text detected' exactly when no pattern matches.
C28_FirstMatchWins ==
    Recognized =>
        LET text == Stripped(testResult[1].file.text)
            hits == Hits(testResult[1].file.text)
            report == testResult[1].report
        IN  /\ (hits = {}) <=> (report.reason = NoErrorText)
            /\ (hits = {}) <=> ~report.result.isDisconnected
            /\ hits # {} =>
                  LET first == errorKeywords[CHOOSE i \in hits : \A j \in hits : i <= j]
                      match == report.reason.match
                  IN  /\ report.reason.kind = "Detected"
                      /\ Len(match) = Len(first.source)
                      /\ \A j \in 1..Len(match) :
                            Canonicalize(first, match[j]) = first.source[j]
                      /\ \E k \in 1..Len(text) :
                            match = SubSeq(text, k, k + Len(match) - 1)

\* Keyword 7, then keyword 1 with a space in the middle: keyword 1 is
\* reported.
C28_Witness ==
    /\ Recognized
    /\ testResult[1].file.text
          = errorKeywords[7].source \o << 32593, 32476, 32, 38169, 35823 >>
    /\ testResult[1].report.reason = Detected(errorKeywords[1].source)


(***************************************************************************)
(* Properties of overlapping ticks, checked under Spec.                    *)
(***************************************************************************)
\* C29: also when ticks overlap, two AlertEvents of one outage are at
\* least a repeat interval apart: a tick does not decide to alert while
\* another one that decided so is still suspended in its dispatch.
C29_OneAlertPerInterval ==
    (lastTick.alerted /\ lastTick.gap # Null) => lastTick.gap >= RepeatInterval


\* C30: in every reachable state, lastAlertTime set implies
\* disconnectStartTime set and lastAlertTime >= disconnectStartTime + the
\* confirmation window, whatever the interleaving of ticks.
C30_AlertAfterOnset ==
    \A idx \in DOMAIN heap :
        heap[idx].lastAlertTime # Null =>
            /\ heap[idx].disconnectStartTime # Null
            /\ heap[idx].lastAlertTime
                  >= heap[idx].disconnectStartTime + ConfirmWindow(variant)


(***************************************************************************)
(* Properties of the alert volume, checked under SpecCadence.              *)
(***************************************************************************)
\* The AlertEvents the detector emitted for logic object idx.
Emitted(idx) ==
    { k \in 1..Len(events) : events[k].src = "detector" /\ events[k].logic = idx }

\* C31: during one uninterrupted outage (confirmation window 15 s, repeat
\* interval 60 s, ceiling 600 s) the detector emits at most 10 AlertEvents,
\* whatever the cadence of the ticks and however long the outage lasts.
C31_AlertVolume ==
    \A idx \in DOMAIN heap : Cardinality(Emitted(idx)) <= 10

C31_Witness ==
    /\ Cardinality(Emitted(alertLogic)) = 10
    /\ OutageElapsed >= AlertCeiling + RepeatInterval


\* C32: every AlertEvent of the detector carries a whole durationSeconds
\* from the confirmation window (15 in the local-OCR loop, 30 in the remote
\* loop) to 599; only the manual test alert carries 0.
C32_DurationRange ==
    \A k \in 1..Len(events) :
        IF events[k].src = "detector"
        THEN events[k].dur \in (ConfirmWindow(variant) \div 1000)..599
        ELSE events[k].src = "test" /\ events[k].dur = 0

C32_Witness ==
    /\ \E k \in 1..Len(events) :
          events[k].src = "detector" /\ events[k].dur = ConfirmWindow(variant) \div 1000
    /\ \E k \in 1..Len(events) : events[k].src = "detector" /\ events[k].dur = 599
    /\ \E k \in 1..Len(events) : events[k].src = "test" /\ events[k].dur = 0


(***************************************************************************)
(* Further properties of the retry queue, checked under SpecQueue.         *)
(***************************************************************************)
Items(seq) == { seq[k] : k \in DOMAIN seq }

\* C33: each QueuedAlert is the subject of at most one send attempt, also
\* when processAlertQueue runs more than once: an item a replay has taken is
\* not in the queue and not in another replay.
C33_SentOnce ==
    /\ \A j, k \in DOMAIN sent :
          (sent[j].ev = sent[k].ev /\ sent[j].type = sent[k].type) => j = k
    /\ \A i \in DOMAIN replays : Items(replays[i]) \cap Items(alertQueue) = {}
    /\ \A i, j \in DOMAIN replays : i # j => Items(replays[i]) \cap Items(replays[j]) = {}

\* Two replays are in flight and each has initiated a send.
C33_Witness ==
    /\ Len(replays) = 2
    /\ \A i \in DOMAIN replays :
          \E k \in DOMAIN sent : sent[k] = Attempt(Head(replays[i]), "replay")


\* The step completes a tick of the detector (not the loading placeholder).
DetectorStep == TickStep /\ lastTick'.result.kind # "loading"

\* The alerts that suspended replays hold.
InReplay(rs) == UNION { Items(rs[i]) : i \in DOMAIN rs }

\* C34: once connectivity is back, a non-empty queue becomes empty and every
\* alert in it gets its send attempt (an alert leaves the queue into a
\* replay only, a replay has initiated the send of its first item, an alert
\* leaves a replay attempted only, and every replay comes to its end); the
\* 'online' event starts the drain, and so does the end of a tick that
\* finds connectivity up and the queue non-empty.
C34_QueueDrains ==
    /\ (alertQueue # << >> /\ onLine) ~> (alertQueue = << >>)
    /\ (replays # << >>) ~> (replays = << >>)
    /\ [][ /\ (HandleOnline \/ (DetectorStep /\ onLine)) => alertQueue' = << >>
          /\ Items(alertQueue) \ Items(alertQueue') \subseteq InReplay(replays')
          /\ \A i \in DOMAIN replays' :
                Attempt(Head(replays'[i]), "replay") \in Items(sent')
          /\ \A a \in InReplay(replays) \ InReplay(replays') :
                Attempt(a, "replay") \in Items(sent') ]_vars

\* Drained by the online event and by a tick: nothing is left anywhere.
C34_Witness ==
    /\ onLine
    /\ ~onlinePending
    /\ alertQueue = << >>
    /\ replays = << >>
    /\ Len(ReplayAttempts) >= 3
    /\ lastTick.n > 0


(***************************************************************************)
(* Properties of the loading placeholder, checked under SpecLoading.       *)
(***************************************************************************)
\* C35: a tick that gets the 'OCR Model Loading' placeholder returns before
\* the detector: disconnectStartTime, lastAlertTime, status (scanning, set
\* by startMonitoring, on the session's first tick), lastCheck and the retry
\* queue stay as they are; and whenever such a tick happens no logic object
\* has disconnectStartTime or lastAlertTime set.
C35_LoadingSkipsDetector ==
    [][ (TickStep /\ lastTick'.result.kind = "loading") =>
          /\ heap'[lastTick'.logic] = lastTick'.before
          /\ \A idx \in DOMAIN heap' : heap'[idx] = EmptyLogic
          /\ status' = (IF isMonitoring THEN status ELSE "scanning")
          /\ lastCheck' = lastCheck
          /\ alertQueue' = alertQueue
          /\ pendingAlertCount' = pendingAlertCount
          /\ replays' = replays
          /\ sent' = sent
          /\ events' = events ]_vars

\* A loading tick other than the session's first found connectivity up and
\* an alert in the queue, and left it there.
C35_Witness ==
    /\ lastTick.result = LoadingResult
    /\ lastTick.n >= 2
    /\ isMonitoring
    /\ onLine
    /\ alertQueue # << >>
    /\ started = lastTick.n


(***************************************************************************)
(* Properties of the dispatch, checked under SpecQueue.                    *)
(***************************************************************************)
Configured(cl) ==
    (IF cl.meowCode THEN {"meow"} ELSE {}) \cup (IF cl.webhookUrl THEN {"webhook"} ELSE {})

\* The destinations of AlertEvent ev that were sent at once, and those that
\* were queued (they are in the queue, in a replay, or replayed).
SentNow(ev) ==
    { type \in {"meow", "webhook"} : Attempt(QueuedAlert(ev, type), "direct") \in Items(sent) }

EverQueued(ev) ==
    { type \in {"meow", "webhook"} :
        \/ QueuedAlert(ev, type) \in Items(alertQueue) \cup InReplay(replays)
        \/ Attempt(QueuedAlert(ev, type), "replay") \in Items(sent) }

\* C36: one triggerAlert call either sends every configured destination at
\* once or queues every configured destination, never some of each; and a
\* destination that is not configured is neither sent nor queued, so that an
\* offline dispatch without destinations leaves the queue as it is.  (The
\* settings do not change in SpecQueue.)
C36_ConnectivitySampledOnce ==
    \A ev \in DOMAIN events :
        /\ SentNow(ev) = {} \/ EverQueued(ev) = {}
        /\ SentNow(ev) \cup EverQueued(ev) = Configured(settings)

\* With both destinations configured, one alert was sent at once and another
\* one queued.
C36_Witness ==
    /\ Configured(settings) = {"meow", "webhook"}
    /\ \E ev \in DOMAIN events : SentNow(ev) = {"meow", "webhook"}
    /\ \E ev \in DOMAIN events : EverQueued(ev) = {"meow", "webhook"}


\* C37: whenever no handler is running, the pending-alert count shown to the
\* user is the number of alerts in the retry queue.
C37_PendingCountIsQueueLength ==
    pendingAlertCount = Len(alertQueue)

\* Alerts are pending after the queue was drained once and alerts were
\* queued again.
C37_Witness ==
    /\ pendingAlertCount >= 2
    /\ pendingAlertCount = Len(alertQueue)
    /\ \E i \in DOMAIN sent : sent[i].via = "replay"


(***************************************************************************)
(* The displayed status while monitoring is off, checked under Spec.       *)
(***************************************************************************)
\* C38: whenever isMonitoring is false the displayed status is "idle"; in
\* particular a tick that was in flight when monitoring stopped does not set
\* the status when it completes.
C38_IdleWhenStopped ==
    ~isMonitoring => status = "idle"


(***************************************************************************)
(* SpecOcr: one OcrService with analyzeFrame calls (image tests), the ways *)
(* its initialization can end, and terminate() calls.                      *)
(***************************************************************************)
MaxWorkers == 2
MaxTerminates == 2

OcrFiles ==
    { TextFile(errorKeywords[1].source, 95), TextFile(errorKeywords[1].source, 50),
      TextFile(<< >>, 95) }

NextOcr ==
    \/ ocr.created < MaxWorkers /\ OcrInitDone
    \/ OcrInitFail
    \/ \E file \in OcrFiles : HandleFileUpload(file)
    \/ ocr.terminates < MaxTerminates /\ Terminate
    \/ \E i \in 1..MaxTerminates : TerminateDone(i)

SpecOcr == InitUpload /\ [][NextOcr]_vars

\* C39: at most one initialization of the service is in flight at any time;
\* and once a terminate() has completed, and as long as no initialization
\* has been started since, the service holds no worker and no worker it
\* made is alive, also when terminate() was called during an initialization.
C39_OneInitNoWorkerAfterTerminate ==
    /\ ocr.inits <= 1
    /\ ocr.released => (~ocr.worker /\ ocr.alive = {})

====
